---- MODULE Spec2Model ----
(***************************************************************************)
(* Inventory ledger of the warehouse management backend (w7-WHv1/backend). *)
(*                                                                         *)
(* The database is the state: bins, bin_contents (Batch Stock Records),    *)
(* bin_movements (Movement Log), stock_reservations with their items, and  *)
(* warehouse_transfers.  Every request handler runs in its own database    *)
(* session (db/session.py): it reads committed rows, changes its ORM       *)
(* objects in memory, and the unit of work writes the changed columns back *)
(* when the session is flushed and committed.  Several sessions are in     *)
(* flight at once; the database runs them READ COMMITTED and no handler    *)
(* locks a row or checks a version, so a session's UPDATE carries the      *)
(* values it computed from what it read.                                   *)
(***************************************************************************)
EXTENDS Integers, Sequences, FiniteSets, TLC

(***************************************************************************)
(* Bounds of the model.                                                    *)
(***************************************************************************)
MaxQty == 2
MaxContents == 2
MaxLog == 3
MaxReservations == 1
MaxTransfers == 1
MaxDay == 2
MaxOverlap == 1
MaxBookings == 2
MaxConfirmations == 2
MaxWarningDays == 31

(***************************************************************************)
(* The fixed master data: two bins in warehouse w1, one in warehouse w2,   *)
(* two products, two batch numbers (ordered as their strings are).         *)
(***************************************************************************)
Bins == {"b1", "b2", "b3"}
Warehouses == {"w1", "w2"}
Products == {"p1", "p2"}
Batches == 1..MaxDay
Roles == {"warehouse", "manager"}

warehouse_id(b) == IF b = "b3" THEN "w2" ELSE "w1"
is_active(b) == b \in Bins

VARIABLES today, bins, contents, movements, reservations, transfers, session,
          workload, warning

dbvars == <<bins, contents, movements, reservations, transfers>>
vars == <<today, bins, contents, movements, reservations, transfers, session,
          workload, warning>>

(***************************************************************************)
(* The committed database as one value; a handler works on a copy of it.   *)
(***************************************************************************)
DB ==
  [bins |-> bins, contents |-> contents, movements |-> movements,
   reservations |-> reservations, transfers |-> transfers]

EmptyDB ==
  [bins |-> [b \in Bins |-> "empty"], contents |-> <<>>, movements |-> <<>>,
   reservations |-> <<>>, transfers |-> <<>>]

Ids(seq) == 1..Len(seq)

RECURSIVE SumSeq(_)
SumSeq(s) == IF s = <<>> THEN 0 ELSE Head(s) + SumSeq(Tail(s))

first_of(a, b) == a

Min(a, b) == IF a <= b THEN a ELSE b

(***************************************************************************)
(* create_movement: one more row of bin_movements.                         *)
(***************************************************************************)
movement_overwriting_last(d, bin_content_id, movement_type, quantity, quantity_before, quantity_after, reason, reference_number, fefo_compliant) ==
  [d EXCEPT !.movements =
     (IF @ = <<>> THEN <<>> ELSE SubSeq(@, 1, Len(@) - 1)) \o
     <<[bin_content_id |-> bin_content_id, movement_type |-> movement_type,
        quantity |-> quantity, quantity_before |-> quantity_before,
        quantity_after |-> quantity_after, reason |-> reason,
        reference_number |-> reference_number, fefo_compliant |-> fefo_compliant]>>]

create_movement(d, bin_content_id, movement_type, quantity, quantity_before, quantity_after, reason, reference_number, fefo_compliant) ==
  [d EXCEPT !.movements = Append(@,
     [bin_content_id |-> bin_content_id, movement_type |-> movement_type,
      quantity |-> quantity, quantity_before |-> quantity_before,
      quantity_after |-> quantity_after, reason |-> reason,
      reference_number |-> reference_number, fefo_compliant |-> fefo_compliant])]

(***************************************************************************)
(* What a handler returns: an error kind ("none" when it ran through) and  *)
(* the session's view of the database after its changes.                   *)
(***************************************************************************)
Raise(d, e) == [err |-> e, db |-> d]
Return(d) == [err |-> "none", db |-> d]

(***************************************************************************)
(* receive_goods.  The request schema has already required quantity > 0    *)
(* and use_by_date > today.  received_date is the time of the receipt: the *)
(* rows are stamped in the order they are created.                         *)
(***************************************************************************)
receive_goods(d, bin_id, product_id, batch_number, use_by_date, quantity) ==
  LET different == {i \in Ids(d.contents) :
                      /\ d.contents[i].bin_id = bin_id
                      /\ d.contents[i].product_id # product_id
                      /\ d.contents[i].quantity > 0}
      existing == {i \in Ids(d.contents) :
                      /\ d.contents[i].bin_id = bin_id
                      /\ d.contents[i].product_id = product_id
                      /\ d.contents[i].batch_number = batch_number}
  IN
  IF ~is_active(bin_id) THEN Raise(d, "bin_inactive")
  ELSE IF Cardinality(different) > 1 THEN Raise(d, "MultipleResultsFound")
  ELSE IF different # {} THEN Raise(d, "bin_already_occupied")
  ELSE IF Cardinality(existing) > 1 THEN Raise(d, "MultipleResultsFound")
  ELSE IF existing # {} THEN
    LET i == CHOOSE i \in existing : TRUE
        quantity_before == d.contents[i].quantity
        quantity_after == quantity_before + quantity
        d1 == [d EXCEPT !.contents[i].quantity = quantity_after]
        d2 == create_movement(d1, i, "receipt", quantity, quantity_before,
                              quantity_after, "supplier_delivery", 0, "null")
    IN Return([d2 EXCEPT !.bins[bin_id] = "occupied"])
  ELSE
    LET i == Len(d.contents) + 1
        d1 == [d EXCEPT !.contents = Append(@,
                 [bin_id |-> bin_id, product_id |-> product_id,
                  batch_number |-> batch_number, use_by_date |-> use_by_date,
                  quantity |-> quantity, reserved_quantity |-> 0,
                  received_date |-> i, status |-> "available"])]
        d2 == create_movement(d1, i, "receipt", quantity, 0, quantity,
                              "supplier_delivery", 0, "null")
    IN Return([d2 EXCEPT !.bins[bin_id] = "occupied"])

(***************************************************************************)
(* FEFO compliance check of the FEFO Selector (services/fefo.py).  A       *)
(* record is eligible when it is available, has quantity - reserved > 0    *)
(* and is not past its use-by date; records are ordered by use-by date,    *)
(* then batch number, then received time.  Issuing from record i is        *)
(* compliant unless another eligible record of the product comes earlier.  *)
(***************************************************************************)
Eligible(d, now, product_id) ==
  {j \in Ids(d.contents) :
     /\ d.contents[j].product_id = product_id
     /\ d.contents[j].status = "available"
     /\ d.contents[j].quantity > d.contents[j].reserved_quantity
     /\ d.contents[j].use_by_date >= now}

received_first(a, b) == a.received_date < b.received_date

FefoBefore(a, b) ==
  \/ a.use_by_date < b.use_by_date
  \/ /\ a.use_by_date = b.use_by_date
     /\ a.batch_number < b.batch_number
  \/ /\ a.use_by_date = b.use_by_date
     /\ a.batch_number = b.batch_number
     /\ a.received_date < b.received_date

is_fefo_compliant(d, now, bin_content_id, product_id) ==
  ~ \E j \in Eligible(d, now, product_id) \ {bin_content_id} :
       FefoBefore(d.contents[j], d.contents[bin_content_id])

(***************************************************************************)
(* issue_goods.  The request schema has already required quantity > 0.     *)
(* override_reason is whether the request carries a reason.                *)
(***************************************************************************)
stock_ignoring_reserved(bin_content) == bin_content.quantity

available_to_issue(bin_content) ==
  bin_content.quantity - bin_content.reserved_quantity

override_never_refused(override_reason, user_role) == FALSE

override_refused(override_reason, user_role) ==
  user_role \notin {"admin", "manager"} \/ ~override_reason

issue_goods(d, now, bin_content_id, quantity, force_non_fefo, override_reason, user_role) ==
  IF bin_content_id \notin Ids(d.contents) THEN Raise(d, "bin_content_not_found")
  ELSE
  LET bin_content == d.contents[bin_content_id]
      is_compliant == is_fefo_compliant(d, now, bin_content_id,
                                        bin_content.product_id)
      quantity_before == bin_content.quantity
      quantity_after == bin_content.quantity - quantity
      d1 == [d EXCEPT !.contents[bin_content_id].quantity = quantity_after]
      d2 == create_movement(d1, bin_content_id, "issue", -quantity,
                            quantity_before, quantity_after, "customer_order", 0,
                            IF is_compliant THEN "true" ELSE "false")
      d3 == IF quantity_after = 0
            THEN [d2 EXCEPT !.bins[bin_content.bin_id] = "empty"]
            ELSE d2
  IN
  IF quantity > bin_content.quantity THEN Raise(d, "insufficient_quantity")
  ELSE IF quantity <= 0 THEN Raise(d, "invalid_quantity")
  ELSE IF bin_content.use_by_date < now THEN Raise(d, "product_expired")
  ELSE IF ~is_compliant /\ ~force_non_fefo THEN Raise(d, "fefo_violation")
  ELSE IF ~is_compliant /\ force_non_fefo
          /\ override_refused(override_reason, user_role)
    THEN Raise(d, "fefo_override_required")
  ELSE IF quantity > available_to_issue(bin_content)
    THEN Raise(d, "insufficient_available")
  ELSE Return(d3)

(***************************************************************************)
(* adjust_stock.  The request schema has already required new_quantity >=  *)
(* 0.                                                                      *)
(***************************************************************************)
adjust_stock(d, bin_content_id, new_quantity) ==
  IF bin_content_id \notin Ids(d.contents) THEN Raise(d, "bin_content_not_found")
  ELSE
  LET bin_content == d.contents[bin_content_id]
      quantity_before == bin_content.quantity
      quantity_change == new_quantity - quantity_before
      d1 == [d EXCEPT !.contents[bin_content_id].quantity = new_quantity]
      d2 == create_movement(d1, bin_content_id, "adjustment", quantity_change,
                            quantity_before, new_quantity, "stocktake", 0, "null")
      d3 == [d2 EXCEPT !.bins[bin_content.bin_id] =
                         IF new_quantity = 0 THEN "empty" ELSE "occupied"]
  IN
  IF new_quantity < bin_content.reserved_quantity
    THEN Raise(d, "reserved_quantity_violation")
  ELSE Return(d3)

(***************************************************************************)
(* scrap_stock.                                                            *)
(***************************************************************************)
scrap_stock(d, bin_content_id) ==
  IF bin_content_id \notin Ids(d.contents) THEN Raise(d, "bin_content_not_found")
  ELSE
  LET bin_content == d.contents[bin_content_id]
      quantity_before == bin_content.quantity
      d1 == [d EXCEPT !.contents[bin_content_id].quantity = 0,
                      !.contents[bin_content_id].status = "scrapped"]
      d2 == create_movement(d1, bin_content_id, "scrap", -quantity_before,
                            quantity_before, 0, "damaged", 0, "null")
  IN Return([d2 EXCEPT !.bins[bin_content.bin_id] = "empty"])

(***************************************************************************)
(* create_reservation.  The query returns the eligible records ordered by  *)
(* (use_by_date, batch_number, received_date); available_bins is one such  *)
(* ordering (rows with equal keys come in an order the database picks).    *)
(***************************************************************************)
FefoOrderings(d, now, product_id) ==
  LET S == Eligible(d, now, product_id)
  IN {o \in [1..Cardinality(S) -> S] :
        /\ \A i, j \in DOMAIN o : i # j => o[i] # o[j]
        /\ \A i, j \in DOMAIN o :
             i < j => ~FefoBefore(d.contents[o[j]], d.contents[o[i]])}

RECURSIVE Allocate(_, _, _)
Allocate(d, available_bins, remaining_needed) ==
  IF available_bins = <<>> \/ remaining_needed <= 0 THEN <<>>
  ELSE
    LET bin_content == d.contents[Head(available_bins)]
        available == bin_content.quantity - bin_content.reserved_quantity
        allocate_qty == Min(available, remaining_needed)
    IN IF available <= 0
       THEN Allocate(d, Tail(available_bins), remaining_needed)
       ELSE <<[bin_content_id |-> Head(available_bins),
               quantity_reserved |-> allocate_qty]>>
            \o Allocate(d, Tail(available_bins), remaining_needed - allocate_qty)

RECURSIVE ReserveItems(_, _)
ReserveItems(d, items) ==
  IF items = <<>> THEN d
  ELSE ReserveItems(
         [d EXCEPT !.contents[Head(items).bin_content_id].reserved_quantity =
                     @ + Head(items).quantity_reserved],
         Tail(items))

TotalReserved(items) ==
  SumSeq([k \in DOMAIN items |-> items[k].quantity_reserved])

create_reservation(d, product_id, quantity, reserved_until, available_bins) ==
  LET allocated_items == Allocate(d, available_bins, quantity)
      total_reserved == TotalReserved(allocated_items)
      d1 == [d EXCEPT !.reservations = Append(@,
               [product_id |-> product_id, total_quantity |-> total_reserved,
                reserved_until |-> reserved_until, status |-> "active",
                items |-> allocated_items])]
  IN
  IF available_bins = <<>> THEN Raise(d, "reservation_no_stock")
  ELSE IF allocated_items = <<>> THEN Raise(d, "reservation_no_stock")
  ELSE Return(ReserveItems(d1, allocated_items))

is_partial(d, quantity, available_bins) ==
  TotalReserved(Allocate(d, available_bins, quantity)) < quantity

(***************************************************************************)
(* fulfill_reservation.                                                    *)
(***************************************************************************)
items_not_issued(d, reservation_id, items) == d

RECURSIVE FulfillItems(_, _, _)
FulfillItems(d, reservation_id, items) ==
  IF items = <<>> THEN d
  ELSE
    LET item == Head(items)
        id == item.bin_content_id
        bin_content == d.contents[id]
        quantity_before == bin_content.quantity
        quantity_after == bin_content.quantity - item.quantity_reserved
        d1 == [d EXCEPT
                 !.contents[id].quantity = quantity_after,
                 !.contents[id].reserved_quantity = @ - item.quantity_reserved]
        d2 == IF quantity_after <= 0
              THEN [d1 EXCEPT !.bins[bin_content.bin_id] = "empty"]
              ELSE d1
        d3 == create_movement(d2, id, "issue", -item.quantity_reserved,
                              quantity_before, quantity_after,
                              "reservation_fulfillment", reservation_id, "true")
    IN FulfillItems(d3, reservation_id, Tail(items))

TerminalError(status) ==
  CASE status = "fulfilled" -> "reservation_already_fulfilled"
    [] status = "cancelled" -> "reservation_already_cancelled"
    [] status = "expired" -> "reservation_expired"
    [] OTHER -> "none"

fulfill_reservation(d, reservation_id) ==
  IF reservation_id \notin Ids(d.reservations)
    THEN Raise(d, "reservation_not_found")
  ELSE
  LET reservation == d.reservations[reservation_id]
      d1 == FulfillItems(d, reservation_id, reservation.items)
  IN
  IF TerminalError(reservation.status) # "none"
    THEN Raise(d, TerminalError(reservation.status))
  ELSE Return([d1 EXCEPT !.reservations[reservation_id].status = "fulfilled"])

(***************************************************************************)
(* cancel_reservation and cleanup_expired_reservations release the items'  *)
(* reserved quantities.                                                    *)
(***************************************************************************)
items_kept_reserved(d, items) == d

RECURSIVE ReleaseItems(_, _)
ReleaseItems(d, items) ==
  IF items = <<>> THEN d
  ELSE ReleaseItems(
         [d EXCEPT !.contents[Head(items).bin_content_id].reserved_quantity =
                     @ - Head(items).quantity_reserved],
         Tail(items))

cancel_reservation(d, reservation_id) ==
  IF reservation_id \notin Ids(d.reservations)
    THEN Raise(d, "reservation_not_found")
  ELSE
  LET reservation == d.reservations[reservation_id]
      d1 == ReleaseItems(d, reservation.items)
  IN
  IF TerminalError(reservation.status) # "none"
    THEN Raise(d, TerminalError(reservation.status))
  ELSE Return([d1 EXCEPT !.reservations[reservation_id].status = "cancelled"])

every_active_reservation(d, now) ==
  {k \in Ids(d.reservations) : d.reservations[k].status = "active"}

expired_reservations(d, now) ==
  {k \in Ids(d.reservations) :
     /\ d.reservations[k].status = "active"
     /\ d.reservations[k].reserved_until < now}

RECURSIVE ExpireFrom(_, _, _)
ExpireFrom(d, k, expired) ==
  IF k > Len(d.reservations) THEN d
  ELSE IF k \in expired
    THEN ExpireFrom(
           [ReleaseItems(d, d.reservations[k].items)
              EXCEPT !.reservations[k].status = "expired"],
           k + 1, expired)
  ELSE ExpireFrom(d, k + 1, expired)

cleanup_expired_reservations(d, now) ==
  Return(ExpireFrom(d, 1, expired_reservations(d, now)))

cleanup_count(d, now) == Cardinality(expired_reservations(d, now))

(***************************************************************************)
(* transfer_within_warehouse.  The request schema has already required     *)
(* quantity > 0.                                                           *)
(***************************************************************************)
NewContentFrom(source_content, bin_id, quantity) ==
  [bin_id |-> bin_id, product_id |-> source_content.product_id,
   batch_number |-> source_content.batch_number,
   use_by_date |-> source_content.use_by_date, quantity |-> quantity,
   reserved_quantity |-> 0, received_date |-> source_content.received_date,
   status |-> "available"]

transfer_within_warehouse(d, source_bin_content_id, target_bin_id, quantity) ==
  IF source_bin_content_id \notin Ids(d.contents)
    THEN Raise(d, "bin_content_not_found")
  ELSE
  LET source_content == d.contents[source_bin_content_id]
      available == source_content.quantity - source_content.reserved_quantity
      different == {i \in Ids(d.contents) :
                      /\ d.contents[i].bin_id = target_bin_id
                      /\ d.contents[i].product_id # source_content.product_id
                      /\ d.contents[i].quantity > 0}
      existing == {i \in Ids(d.contents) :
                      /\ d.contents[i].bin_id = target_bin_id
                      /\ d.contents[i].product_id = source_content.product_id
                      /\ d.contents[i].batch_number = source_content.batch_number}
      source_quantity_before == source_content.quantity
      source_quantity_after == source_content.quantity - quantity
      d1 == [d EXCEPT !.contents[source_bin_content_id].quantity =
                        source_quantity_after]
      d2 == IF source_quantity_after <= 0
            THEN [d1 EXCEPT !.bins[source_content.bin_id] = "empty"]
            ELSE d1
      target_id == IF existing # {} THEN CHOOSE i \in existing : TRUE
                   ELSE Len(d.contents) + 1
      target_quantity_before ==
        IF existing # {} THEN d.contents[target_id].quantity ELSE 0
      target_quantity_after == target_quantity_before + quantity
      d3 == IF existing # {}
            THEN [d2 EXCEPT !.contents[target_id].quantity = target_quantity_after]
            ELSE [d2 EXCEPT !.contents = Append(@,
                    NewContentFrom(source_content, target_bin_id, quantity))]
      d4 == [d3 EXCEPT !.bins[target_bin_id] = "occupied"]
      d5 == create_movement(d4, source_bin_content_id, "transfer", -quantity,
                            source_quantity_before, source_quantity_after,
                            "transfer_out", 0, "null")
      d6 == create_movement(d5, target_id, "transfer", quantity,
                            target_quantity_before, target_quantity_after,
                            "transfer_in", 0, "null")
  IN
  IF quantity > available THEN Raise(d, "transfer_insufficient_quantity")
  ELSE IF target_bin_id \notin Bins THEN Raise(d, "bin_not_found")
  ELSE IF warehouse_id(source_content.bin_id) # warehouse_id(target_bin_id)
    THEN Raise(d, "transfer_different_warehouse")
  ELSE IF source_content.bin_id = target_bin_id THEN Raise(d, "transfer_same_bin")
  ELSE IF ~is_active(target_bin_id) THEN Raise(d, "bin_inactive")
  ELSE IF Cardinality(different) > 1 THEN Raise(d, "MultipleResultsFound")
  ELSE IF different # {} THEN Raise(d, "transfer_target_occupied")
  ELSE IF Cardinality(existing) > 1 THEN Raise(d, "MultipleResultsFound")
  ELSE Return(d6)

(***************************************************************************)
(* create_cross_warehouse_transfer.  target_bin_id is "none" when the      *)
(* request names no target bin.                                            *)
(***************************************************************************)
create_cross_warehouse_transfer(d, source_bin_content_id, target_warehouse_id, target_bin_id, quantity) ==
  IF source_bin_content_id \notin Ids(d.contents)
    THEN Raise(d, "bin_content_not_found")
  ELSE
  LET source_content == d.contents[source_bin_content_id]
      available == source_content.quantity - source_content.reserved_quantity
      source_quantity_before == source_content.quantity
      source_quantity_after == source_content.quantity - quantity
      d1 == [d EXCEPT !.contents[source_bin_content_id].quantity =
                        source_quantity_after]
      d2 == IF source_quantity_after <= 0
            THEN [d1 EXCEPT !.bins[source_content.bin_id] = "empty"]
            ELSE d1
      d3 == [d2 EXCEPT !.transfers = Append(@,
               [source_bin_id |-> source_content.bin_id,
                source_bin_content_id |-> source_bin_content_id,
                target_warehouse_id |-> target_warehouse_id,
                target_bin_id |-> target_bin_id, quantity_sent |-> quantity,
                quantity_received |-> 0, status |-> "pending"])]
      d4 == create_movement(d3, source_bin_content_id, "transfer", -quantity,
                            source_quantity_before, source_quantity_after,
                            "cross_warehouse_out", 0, "null")
  IN
  IF quantity > available THEN Raise(d, "transfer_insufficient_quantity")
  ELSE IF target_warehouse_id \notin Warehouses THEN Raise(d, "warehouse_not_found")
  ELSE IF warehouse_id(source_content.bin_id) = target_warehouse_id
    THEN Raise(d, "transfer_same_bin")
  ELSE IF target_bin_id # "none" /\ (target_bin_id \notin Bins
                                     \/ warehouse_id(target_bin_id) # target_warehouse_id)
    THEN Raise(d, "bin_not_found")
  ELSE IF target_bin_id # "none" /\ ~is_active(target_bin_id)
    THEN Raise(d, "bin_inactive")
  ELSE Return(d4)

(***************************************************************************)
(* dispatch_transfer.                                                      *)
(***************************************************************************)
dispatch_transfer(d, transfer_id) ==
  IF transfer_id \notin Ids(d.transfers) THEN Raise(d, "transfer_not_found")
  ELSE IF d.transfers[transfer_id].status # "pending"
    THEN Raise(d, "transfer_already_completed")
  ELSE Return([d EXCEPT !.transfers[transfer_id].status = "in_transit"])

(***************************************************************************)
(* confirm_cross_warehouse_transfer, and the response the endpoint         *)
(* confirm_transfer_receipt builds from transfer.target_bin: the           *)
(* relationship was loaded with the transfer, before target_bin_id was     *)
(* set, so it is None for a transfer created without a target bin.         *)
(***************************************************************************)
confirm_cross_warehouse_transfer(d, transfer_id, target_bin_id, received_quantity) ==
  IF transfer_id \notin Ids(d.transfers) THEN Raise(d, "transfer_not_found")
  ELSE
  LET transfer == d.transfers[transfer_id]
      source_content == d.contents[transfer.source_bin_content_id]
      different == {i \in Ids(d.contents) :
                      /\ d.contents[i].bin_id = target_bin_id
                      /\ d.contents[i].product_id # source_content.product_id
                      /\ d.contents[i].quantity > 0}
      existing == {i \in Ids(d.contents) :
                      /\ d.contents[i].bin_id = target_bin_id
                      /\ d.contents[i].product_id = source_content.product_id
                      /\ d.contents[i].batch_number = source_content.batch_number}
      target_id == IF existing # {} THEN CHOOSE i \in existing : TRUE
                   ELSE Len(d.contents) + 1
      target_quantity_before ==
        IF existing # {} THEN d.contents[target_id].quantity ELSE 0
      target_quantity_after == target_quantity_before + received_quantity
      d1 == IF existing # {}
            THEN [d EXCEPT !.contents[target_id].quantity = target_quantity_after]
            ELSE [d EXCEPT !.contents = Append(@,
                    NewContentFrom(source_content, target_bin_id, received_quantity))]
      d2 == [d1 EXCEPT !.bins[target_bin_id] = "occupied"]
      d3 == create_movement(d2, target_id, "transfer", received_quantity,
                            target_quantity_before, target_quantity_after,
                            "cross_warehouse_in", 0, "null")
      d4 == [d3 EXCEPT !.transfers[transfer_id].status = "received",
                       !.transfers[transfer_id].target_bin_id = target_bin_id,
                       !.transfers[transfer_id].quantity_received = received_quantity]
  IN
  IF transfer.status = "received" THEN Raise(d, "transfer_already_completed")
  ELSE IF transfer.status = "cancelled" THEN Raise(d, "transfer_already_cancelled")
  ELSE IF transfer.status = "pending" THEN Raise(d, "transfer_not_dispatched")
  ELSE IF target_bin_id \notin Bins
          \/ warehouse_id(target_bin_id) # transfer.target_warehouse_id
    THEN Raise(d, "bin_not_found")
  ELSE IF ~is_active(target_bin_id) THEN Raise(d, "bin_inactive")
  ELSE IF Cardinality(different) > 1 THEN Raise(d, "MultipleResultsFound")
  ELSE IF different # {} THEN Raise(d, "transfer_target_occupied")
  ELSE IF Cardinality(existing) > 1 THEN Raise(d, "MultipleResultsFound")
  ELSE Return(d4)

confirm_transfer_receipt(d, transfer_id, target_bin_id, received_quantity) ==
  LET r == confirm_cross_warehouse_transfer(d, transfer_id, target_bin_id,
                                            received_quantity)
  IN IF r.err = "none" /\ d.transfers[transfer_id].target_bin_id = "none"
     THEN Raise(r.db, "AttributeError")
     ELSE r

(***************************************************************************)
(* cancel_transfer.  Its query loads the transfer and its source           *)
(* bin_content only; source_content.bin is then a lazy load, which an      *)
(* AsyncSession refuses (MissingGreenlet) unless the bin row is already    *)
(* in the session.  BinsInSession is what the request has loaded before.   *)
(***************************************************************************)
every_bin_in_session == Bins

BinsInSession == {}

cancel_transfer(d, transfer_id) ==
  IF transfer_id \notin Ids(d.transfers) THEN Raise(d, "transfer_not_found")
  ELSE
  LET transfer == d.transfers[transfer_id]
      id == transfer.source_bin_content_id
      source_content == d.contents[id]
      source_quantity_before == source_content.quantity
      source_quantity_after == source_content.quantity + transfer.quantity_sent
      d1 == [d EXCEPT !.contents[id].quantity = source_quantity_after,
                      !.bins[source_content.bin_id] = "occupied"]
      d2 == create_movement(d1, id, "transfer", transfer.quantity_sent,
                            source_quantity_before, source_quantity_after,
                            "transfer_cancelled", 0, "null")
  IN
  IF transfer.status = "received" THEN Raise(d, "transfer_already_completed")
  ELSE IF transfer.status = "cancelled" THEN Raise(d, "transfer_already_cancelled")
  ELSE IF source_content.bin_id \notin BinsInSession
    THEN Raise([d EXCEPT !.contents[id].quantity = source_quantity_after],
               "MissingGreenlet")
  ELSE Return([d2 EXCEPT !.transfers[transfer_id].status = "cancelled"])

(***************************************************************************)
(* delete_existing_bin (api/v1/bins.py) and delete_bin.  Only a bin whose   *)
(* status is empty gets as far as the delete; the delete cascades to the   *)
(* bin's records, and a record that a movement refers to cannot be deleted *)
(* (bin_movements.bin_content_id is ON DELETE RESTRICT), so the flush      *)
(* fails.  A bin without records is deleted; the same bin can be created   *)
(* again, so the status map keeps it as an empty bin.                      *)
(***************************************************************************)
delete_bin(d, bin_id) ==
  LET rows == {i \in Ids(d.contents) : d.contents[i].bin_id = bin_id}
      restricted == {i \in rows :
                       \E m \in Ids(d.movements) : d.movements[m].bin_content_id = i}
  IN
  IF d.bins[bin_id] # "empty" THEN Raise(d, "bin_not_empty")
  ELSE IF restricted # {} THEN Raise(d, "IntegrityError")
  ELSE IF rows # {} THEN Raise(d, "record_without_movement")
  ELSE Return(d)

(***************************************************************************)
(* The cleanup job (tasks/jobs.py).  It runs the sweep in a session of its *)
(* own and then calls update_job_execution, which commits; the call       *)
(* passes duration_seconds, a keyword update_job_execution does not       *)
(* take, so it raises TypeError before its body runs, in the try block and *)
(* again in the except block, and the session closes without a commit.     *)
(***************************************************************************)
job_execution_updated(d) == Return(d)

update_job_execution(d) == Raise(d, "TypeError")

cleanup_expired_reservations_task(d, now) ==
  update_job_execution(cleanup_expired_reservations(d, now).db)

(***************************************************************************)
(* The unit of work.  A session that read base and holds local writes,     *)
(* for every row it loaded, the columns whose value it changed, with the   *)
(* value it holds; it inserts the rows it added, which get the next ids of *)
(* the table as it is at the time of the insert.                           *)
(***************************************************************************)
Remap(cur, base, i) ==
  IF i <= Len(base.contents) THEN i
  ELSE i - Len(base.contents) + Len(cur.contents)

Written(cur_v, base_v, local_v) == IF local_v # base_v THEN local_v ELSE cur_v

Inserted(base_seq, local_seq) ==
  SubSeq(local_seq, Len(base_seq) + 1, Len(local_seq))

Apply(cur, base, local) ==
  [bins |-> [b \in Bins |-> Written(cur.bins[b], base.bins[b], local.bins[b])],
   contents |->
     [i \in Ids(base.contents) |->
        [cur.contents[i] EXCEPT
           !.quantity = Written(@, base.contents[i].quantity,
                                local.contents[i].quantity),
           !.reserved_quantity = Written(@, base.contents[i].reserved_quantity,
                                         local.contents[i].reserved_quantity),
           !.status = Written(@, base.contents[i].status,
                              local.contents[i].status)]]
     \o SubSeq(cur.contents, Len(base.contents) + 1, Len(cur.contents))
     \o Inserted(base.contents, local.contents),
   movements |->
     cur.movements \o
     [k \in Ids(Inserted(base.movements, local.movements)) |->
        [Inserted(base.movements, local.movements)[k] EXCEPT
           !.bin_content_id = Remap(cur, base, @)]],
   reservations |->
     [i \in Ids(base.reservations) |->
        [cur.reservations[i] EXCEPT
           !.status = Written(@, base.reservations[i].status,
                              local.reservations[i].status)]]
     \o SubSeq(cur.reservations, Len(base.reservations) + 1, Len(cur.reservations))
     \o Inserted(base.reservations, local.reservations),
   transfers |->
     [i \in Ids(base.transfers) |->
        [cur.transfers[i] EXCEPT
           !.status = Written(@, base.transfers[i].status,
                              local.transfers[i].status),
           !.target_bin_id = Written(@, base.transfers[i].target_bin_id,
                                     local.transfers[i].target_bin_id),
           !.quantity_received = Written(@, base.transfers[i].quantity_received,
                                         local.transfers[i].quantity_received)]]
     \o SubSeq(cur.transfers, Len(base.transfers) + 1, Len(cur.transfers))
     \o Inserted(base.transfers, local.transfers)]

(***************************************************************************)
(* The CHECK constraints of bin_contents: check_quantity_positive and      *)
(* check_reserved_quantity.  The database evaluates them on every row an   *)
(* INSERT or UPDATE produces.                                              *)
(***************************************************************************)
check_quantity_positive(row) == row.quantity >= 0

check_reserved_quantity_dropped(row) == TRUE

check_reserved_quantity(row) ==
  row.reserved_quantity >= 0 /\ row.reserved_quantity <= row.quantity

Touched(cur, base, local) ==
  {i \in Ids(base.contents) : local.contents[i] # base.contents[i]}
  \cup {Remap(cur, base, i) : i \in Ids(local.contents) \ Ids(base.contents)}

NoIntegrityError(cur, base, local) == FALSE

IntegrityError(cur, base, local) ==
  \E i \in Touched(cur, base, local) :
     LET row == Apply(cur, base, local).contents[i]
     IN ~(check_quantity_positive(row) /\ check_reserved_quantity(row))

(***************************************************************************)
(* Requests.  A request reads the committed database, runs its handler and *)
(* commits (get_async_session); a handler that raises is answered at once  *)
(* and its session is rolled back, and so is a session whose write the     *)
(* database refuses (IntegrityError).  Of the sessions in flight, s1       *)
(* stands for those that commit before any other session does (Request     *)
(* with late = FALSE), s2 for the one that is still open while others      *)
(* commit: it reads (Request with late = TRUE) and commits later (Commit), *)
(* after at most MaxOverlap commits of others.  A handler that raises only *)
(* after it has flushed changes (raises) keeps its session open until the  *)
(* rollback that ends it.                                                  *)
(***************************************************************************)
NoWarning == [display |-> "none", days_until_expiry |-> 0, urgency |-> "none"]

Idle == [state |-> "idle", op |-> "none", base |-> EmptyDB, local |-> EmptyDB,
         raises |-> "none", overlap |-> 0]

InFlight(field) == Len(session.local[field]) - Len(session.base[field])

Fits(r) ==
  LET new(field) == Len(r.db[field]) - Len(DB[field]) IN
  /\ Len(contents) + InFlight("contents") + new("contents")
       <= IF workload \in {"shipping", "moves"}
          THEN MaxContents + MaxConfirmations
          ELSE MaxContents
  /\ Len(movements) + InFlight("movements") + new("movements")
       <= IF workload \in {"shipping", "moves"} THEN MaxLog + MaxConfirmations
          ELSE MaxLog
  /\ Len(reservations) + InFlight("reservations") + new("reservations")
       <= IF workload \in {"allocation", "sweep"} THEN MaxBookings
          ELSE MaxReservations
  /\ Len(transfers) + InFlight("transfers") + new("transfers") <= MaxTransfers
  /\ \A i \in Ids(r.db.contents) : r.db.contents[i].quantity <= MaxQty

Install(d) ==
  /\ bins' = d.bins
  /\ contents' = d.contents
  /\ movements' = d.movements
  /\ reservations' = d.reservations
  /\ transfers' = d.transfers

Request(late, op, r) ==
  /\ late => session.state = "idle"
  /\ session.overlap < MaxOverlap
  /\ Fits(r)
  /\ IF r.err # "none" /\ (~late \/ r.db = DB) THEN UNCHANGED <<dbvars, session>>
     ELSE IF late
       THEN /\ session' = [state |-> "pending", op |-> op, base |-> DB,
                           local |-> r.db, raises |-> r.err, overlap |-> 0]
            /\ UNCHANGED dbvars
     ELSE IF IntegrityError(DB, DB, r.db) THEN UNCHANGED <<dbvars, session>>
     ELSE /\ Install(Apply(DB, DB, r.db))
          /\ session' = IF session.state = "pending"
                        THEN [session EXCEPT !.overlap = @ + 1]
                        ELSE session
  /\ UNCHANGED <<today, workload, warning>>

Commit ==
  /\ session.state = "pending"
  /\ IF session.raises # "none" \/ IntegrityError(DB, session.base, session.local)
     THEN UNCHANGED dbvars
     ELSE Install(Apply(DB, session.base, session.local))
  /\ session' = Idle
  /\ UNCHANGED <<today, workload, warning>>

(***************************************************************************)
(* The workloads: what the requests of one run are about.  The ledger      *)
(* alone; the ledger with reservations; stock and reservations as days     *)
(* pass; transfers within and between warehouses.                          *)
(***************************************************************************)
Workloads == {"ledger", "holds", "expiry", "transfers"}

ContentIds == 1..MaxContents
Quantities == 1..MaxQty
UseByDates == 1..MaxDay

(***************************************************************************)
(* The deliveries that arrive: batch n of product p1 carries use-by day n  *)
(* and goes to a bin of warehouse w1; product p2 comes as single units of  *)
(* its last batch, to bin b1 or to warehouse w2.                           *)
(***************************************************************************)
Deliveries ==
  {r \in [bin_id : Bins, product_id : Products, batch_number : Batches,
          use_by_date : UseByDates, quantity : Quantities] :
     /\ r.use_by_date = r.batch_number
     /\ r.product_id = "p1" => warehouse_id(r.bin_id) = "w1"
     /\ r.product_id = "p2" =>
          r.batch_number = MaxDay /\ r.quantity = 1 /\ r.bin_id # "b2"}

Receive(late) ==
  /\ workload \in Workloads
  /\ \E r \in Deliveries :
       /\ r.use_by_date > today
       /\ Request(late, "receive", receive_goods(DB, r.bin_id, r.product_id, r.batch_number,
                                            r.use_by_date, r.quantity))

(***************************************************************************)
(* The ways an issue request is sent: without an override by a warehouse   *)
(* user, or with one, which may lack the reason or the role.               *)
(***************************************************************************)
Overrides ==
  {o \in [force_non_fefo : BOOLEAN, override_reason : BOOLEAN, user_role : Roles] :
     /\ ~o.force_non_fefo => ~o.override_reason /\ o.user_role = "warehouse"
     /\ ~o.override_reason => o.user_role = "manager" \/ ~o.force_non_fefo}

Issue(late) ==
  /\ workload \in {"ledger", "holds", "expiry", "moves"}
  /\ \E bin_content_id \in ContentIds, quantity \in Quantities, o \in Overrides :
       Request(late, "issue", issue_goods(DB, today, bin_content_id, quantity,
                                          o.force_non_fefo, o.override_reason,
                                          o.user_role))

Adjust(late) ==
  /\ workload \in {"ledger", "holds"}
  /\ \E bin_content_id \in ContentIds, new_quantity \in 0..MaxQty :
       Request(late, "adjust", adjust_stock(DB, bin_content_id, new_quantity))

Scrap(late) ==
  /\ workload \in {"ledger", "holds"}
  /\ \E bin_content_id \in ContentIds :
       Request(late, "scrap", scrap_stock(DB, bin_content_id))

(***************************************************************************)
(* A reservation is asked to hold until the end of the day it is made.     *)
(***************************************************************************)
Reserve(late) ==
  /\ workload \in {"holds", "expiry", "allocation", "sweep"}
  /\ \E product_id \in Products, quantity \in Quantities :
       \E available_bins \in FefoOrderings(DB, today, product_id) :
         Request(late, "reserve", create_reservation(DB, product_id, quantity,
                                                     today, available_bins))

Fulfill(late) ==
  /\ workload \in {"holds", "expiry", "sweep"}
  /\ \E reservation_id \in 1..MaxReservations :
       Request(late, "fulfill", fulfill_reservation(DB, reservation_id))

CancelReservation(late) ==
  /\ workload \in {"holds"}
  /\ \E reservation_id \in 1..MaxReservations :
       Request(late, "cancel_reservation", cancel_reservation(DB, reservation_id))

CleanupJob(late) ==
  /\ workload \in {"expiry", "sweep"}
  /\ Request(late, "cleanup", cleanup_expired_reservations_task(DB, today))

TransferWithin(late) ==
  /\ workload \in {"ledger", "transfers", "moves"}
  /\ \E source_bin_content_id \in ContentIds, target_bin_id \in Bins,
        quantity \in Quantities :
       Request(late, "transfer", transfer_within_warehouse(DB, source_bin_content_id,
                                                      target_bin_id, quantity))

CreateTransfer(late) ==
  /\ workload \in {"transfers", "shipping"}
  /\ \E source_bin_content_id \in ContentIds, target_warehouse_id \in Warehouses,
        target_bin_id \in Bins \cup {"none"}, quantity \in Quantities :
       Request(late, "create_transfer",
             create_cross_warehouse_transfer(DB, source_bin_content_id,
                                             target_warehouse_id, target_bin_id, quantity))

Dispatch(late) ==
  /\ workload \in {"transfers", "shipping"}
  /\ \E transfer_id \in 1..MaxTransfers :
       Request(late, "dispatch", dispatch_transfer(DB, transfer_id))

ConfirmTransfer(late) ==
  /\ workload \in {"transfers", "shipping"}
  /\ \E transfer_id \in 1..MaxTransfers, target_bin_id \in Bins,
        received_quantity \in Quantities :
       Request(late, "confirm", confirm_transfer_receipt(DB, transfer_id, target_bin_id,
                                                    received_quantity))

CancelTransfer(late) ==
  /\ workload \in {"transfers", "shipping"}
  /\ \E transfer_id \in 1..MaxTransfers :
       Request(late, "cancel_transfer", cancel_transfer(DB, transfer_id))

(***************************************************************************)
(* Days pass between requests: the warehouse is looked at on the day of    *)
(* the deliveries and again on day MaxDay.                                 *)
(***************************************************************************)
Tick ==
  /\ workload \in {"expiry", "sweep"}
  /\ today < MaxDay
  /\ session.state = "idle"
  /\ today' = MaxDay
  /\ UNCHANGED <<dbvars, session, workload, warning>>

Init ==
  /\ today = 0
  /\ bins = EmptyDB.bins
  /\ contents = <<>>
  /\ movements = <<>>
  /\ reservations = <<>>
  /\ transfers = <<>>
  /\ session = Idle
  /\ warning = NoWarning
  /\ workload \in Workloads

(***************************************************************************)
(* The ledger alone: receipts, issues, adjustments, scrapping and moves    *)
(* between bins, on the day the stock arrived.                             *)
(***************************************************************************)
NextLedger ==
  \/ \E late \in BOOLEAN : Receive(late)
  \/ \E late \in BOOLEAN : Issue(late)
  \/ \E late \in BOOLEAN : Adjust(late)
  \/ \E late \in BOOLEAN : Scrap(late)
  \/ \E late \in BOOLEAN : TransferWithin(late)
  \/ Commit

InitLedger == Init /\ workload = "ledger"

SpecLedger == InitLedger /\ [][NextLedger]_vars

(***************************************************************************)
(* The ledger with reservations, on the day the stock arrived.             *)
(***************************************************************************)
NextHolds ==
  \/ \E late \in BOOLEAN : Receive(late)
  \/ \E late \in BOOLEAN : Issue(late)
  \/ \E late \in BOOLEAN : Adjust(late)
  \/ \E late \in BOOLEAN : Scrap(late)
  \/ \E late \in BOOLEAN : Reserve(late)
  \/ \E late \in BOOLEAN : Fulfill(late)
  \/ \E late \in BOOLEAN : CancelReservation(late)
  \/ Commit

InitHolds == Init /\ workload = "holds"

SpecHolds == InitHolds /\ [][NextHolds]_vars

(***************************************************************************)
(* Stock and reservations as days pass: batches expire, reservations fall  *)
(* overdue and the cleanup job runs.                                       *)
(***************************************************************************)
NextExpiry ==
  \/ \E late \in BOOLEAN : Receive(late)
  \/ \E late \in BOOLEAN : Issue(late)
  \/ \E late \in BOOLEAN : Reserve(late)
  \/ \E late \in BOOLEAN : Fulfill(late)
  \/ \E late \in BOOLEAN : CleanupJob(late)
  \/ Commit
  \/ Tick

InitExpiry == Init /\ workload = "expiry"

SpecExpiry == InitExpiry /\ [][NextExpiry]_vars

(***************************************************************************)
(* Transfers within and between warehouses.                                *)
(***************************************************************************)
NextTransfers ==
  \/ \E late \in BOOLEAN : Receive(late)
  \/ \E late \in BOOLEAN : TransferWithin(late)
  \/ \E late \in BOOLEAN : CreateTransfer(late)
  \/ \E late \in BOOLEAN : Dispatch(late)
  \/ \E late \in BOOLEAN : ConfirmTransfer(late)
  \/ \E late \in BOOLEAN : CancelTransfer(late)
  \/ Commit

InitTransfers == Init /\ workload = "transfers"

SpecTransfers == InitTransfers /\ [][NextTransfers]_vars

(***************************************************************************)
(* Allocation: reservations made against stock that is already there.  The *)
(* stock is what a series of deliveries, one per bin, has left, with any   *)
(* batch number and use-by date, after one of the records may have been    *)
(* scrapped; the day is the day of the deliveries or a later one, on which *)
(* the early batches have expired.                                         *)
(***************************************************************************)
BinSeq == <<"b1", "b2", "b3">>

Arrivals ==
  UNION {[1..n -> [product_id : Products, batch_number : Batches,
                   use_by_date : UseByDates, quantity : Quantities]] :
           n \in 1..MaxContents}

RECURSIVE Stocked(_)
Stocked(ds) ==
  IF ds = <<>> THEN EmptyDB
  ELSE LET x == ds[Len(ds)]
       IN receive_goods(Stocked(SubSeq(ds, 1, Len(ds) - 1)), BinSeq[Len(ds)],
                        x.product_id, x.batch_number, x.use_by_date, x.quantity).db

InitAllocation ==
  /\ workload = "allocation"
  /\ today \in {0, MaxDay}
  /\ session = Idle
  /\ warning = NoWarning
  /\ \E ds \in Arrivals, scrapped \in 0..MaxContents :
        LET d == IF scrapped = 0 THEN Stocked(ds)
                 ELSE scrap_stock(Stocked(ds), scrapped).db
        IN /\ bins = d.bins
           /\ contents = d.contents
           /\ movements = d.movements
           /\ reservations = d.reservations
           /\ transfers = d.transfers

NextAllocation ==
  \/ \E late \in BOOLEAN : Reserve(late)
  \/ Commit

SpecAllocation == InitAllocation /\ [][NextAllocation]_vars

(***************************************************************************)
(* Reservations over several days on stock that receive_goods has placed:  *)
(* reservations made on different days, the fulfilment of the first and    *)
(* the cleanup job.                                                        *)
(***************************************************************************)
InitSweep ==
  /\ workload = "sweep"
  /\ today = 0
  /\ session = Idle
  /\ warning = NoWarning
  /\ \E ds \in Arrivals :
        LET d == Stocked(ds)
        IN /\ bins = d.bins
           /\ contents = d.contents
           /\ movements = d.movements
           /\ reservations = d.reservations
           /\ transfers = d.transfers

NextSweep ==
  \/ \E late \in BOOLEAN : Reserve(late)
  \/ \E late \in BOOLEAN : Fulfill(late)
  \/ \E late \in BOOLEAN : CleanupJob(late)
  \/ Commit
  \/ Tick

SpecSweep == InitSweep /\ [][NextSweep]_vars

(***************************************************************************)
(* The scheduled task alone with reservation requests: Celery beat starts  *)
(* cleanup_expired_reservations_task every hour, so a run that can start   *)
(* does start, and a session that is open ends.  No Fulfill and no Cancel  *)
(* takes place.                                                            *)
(***************************************************************************)
NextTask ==
  \/ \E late \in BOOLEAN : Reserve(late)
  \/ \E late \in BOOLEAN : CleanupJob(late)
  \/ Commit
  \/ Tick

SpecTask ==
  /\ InitSweep
  /\ [][NextTask]_vars
  /\ WF_vars(CleanupJob(TRUE))
  /\ WF_vars(Commit)

(***************************************************************************)
(* The warning displays.  The bin list (services/bin.py get_bins) shows    *)
(* for every record days_until = use_by_date - today and                   *)
(* calculate_expiry_urgency of it; the expiry warnings (services/expiry.py *)
(* get_expiry_warnings) show the records with today < use_by_date <=       *)
(* today + days_threshold and calculate_urgency of their days.             *)
(***************************************************************************)
calculate_expiry_urgency(days_until_expiry) ==
  IF days_until_expiry < 0 THEN "expired"
  ELSE IF days_until_expiry <= 3 THEN "critical"
  ELSE IF days_until_expiry <= 7 THEN "high"
  ELSE IF days_until_expiry <= 14 THEN "medium"
  ELSE "low"

calculate_urgency(days_until_expiry) ==
  IF days_until_expiry < 7 THEN "critical"
  ELSE IF days_until_expiry < 14 THEN "high"
  ELSE IF days_until_expiry < 30 THEN "medium"
  ELSE "low"

WarningDates == 0..(MaxDay + MaxWarningDays)

days_threshold == 30

get_bins ==
  /\ workload = "warnings"
  /\ \E use_by_date \in WarningDates :
        LET days_until == use_by_date - today
        IN warning' = [display |-> "bins", days_until_expiry |-> days_until,
                       urgency |-> calculate_expiry_urgency(days_until)]
  /\ UNCHANGED <<today, dbvars, session, workload>>

get_expiry_warnings ==
  /\ workload = "warnings"
  /\ \E use_by_date \in WarningDates :
        LET days_until_expiry == use_by_date - today
        IN /\ use_by_date > today
           /\ use_by_date <= today + days_threshold
           /\ warning' = [display |-> "expiry_warnings",
                          days_until_expiry |-> days_until_expiry,
                          urgency |-> calculate_urgency(days_until_expiry)]
  /\ UNCHANGED <<today, dbvars, session, workload>>

InitWarnings ==
  /\ workload = "warnings"
  /\ today \in 0..MaxDay
  /\ session = Idle
  /\ warning = NoWarning
  /\ bins = EmptyDB.bins
  /\ contents = <<>>
  /\ movements = <<>>
  /\ reservations = <<>>
  /\ transfers = <<>>

NextWarnings ==
  \/ get_bins
  \/ get_expiry_warnings

SpecWarnings == InitWarnings /\ [][NextWarnings]_vars

(***************************************************************************)
(* Moves between the bins of a stocked warehouse while stock is issued.    *)
(***************************************************************************)
InitMoves ==
  /\ workload = "moves"
  /\ today = 0
  /\ session = Idle
  /\ warning = NoWarning
  /\ \E ds \in Arrivals :
        LET d == Stocked(ds)
        IN /\ bins = d.bins
           /\ contents = d.contents
           /\ movements = d.movements
           /\ reservations = d.reservations
           /\ transfers = d.transfers

NextMoves ==
  \/ \E late \in BOOLEAN : TransferWithin(late)
  \/ \E late \in BOOLEAN : Issue(late)
  \/ Commit

SpecMoves == InitMoves /\ [][NextMoves]_vars

(***************************************************************************)
(* Cross-warehouse transfers out of a stocked warehouse: the requests of   *)
(* api/v1/transfers.py on stock that receive_goods has placed, with room   *)
(* for MaxConfirmations further records and movements.                     *)
(***************************************************************************)
InitShipping ==
  /\ workload = "shipping"
  /\ today = 0
  /\ session = Idle
  /\ warning = NoWarning
  /\ \E ds \in Arrivals :
        LET d == Stocked(ds)
        IN /\ bins = d.bins
           /\ contents = d.contents
           /\ movements = d.movements
           /\ reservations = d.reservations
           /\ transfers = d.transfers

NextShipping ==
  \/ \E late \in BOOLEAN : CreateTransfer(late)
  \/ \E late \in BOOLEAN : Dispatch(late)
  \/ \E late \in BOOLEAN : ConfirmTransfer(late)
  \/ \E late \in BOOLEAN : CancelTransfer(late)
  \/ Commit

SpecShipping == InitShipping /\ [][NextShipping]_vars

(***************************************************************************)
(* The whole system: every run is one of the workloads.                    *)
(***************************************************************************)
Next ==
  \/ \E late \in BOOLEAN : Receive(late)
  \/ \E late \in BOOLEAN : Issue(late)
  \/ \E late \in BOOLEAN : Adjust(late)
  \/ \E late \in BOOLEAN : Scrap(late)
  \/ \E late \in BOOLEAN : Reserve(late)
  \/ \E late \in BOOLEAN : Fulfill(late)
  \/ \E late \in BOOLEAN : CancelReservation(late)
  \/ \E late \in BOOLEAN : CleanupJob(late)
  \/ \E late \in BOOLEAN : TransferWithin(late)
  \/ \E late \in BOOLEAN : CreateTransfer(late)
  \/ \E late \in BOOLEAN : Dispatch(late)
  \/ \E late \in BOOLEAN : ConfirmTransfer(late)
  \/ \E late \in BOOLEAN : CancelTransfer(late)
  \/ Commit
  \/ Tick

Spec == Init /\ [][Next]_vars

(***************************************************************************)
(* C1.  In every reachable state every Batch Stock Record satisfies        *)
(* 0 <= reserved <= quantity.                                              *)
(***************************************************************************)
C1_ReservedWithinQuantity ==
  \A i \in Ids(contents) :
     /\ 0 <= contents[i].reserved_quantity
     /\ contents[i].reserved_quantity <= contents[i].quantity

MovementsOf(i) == {k \in Ids(movements) : movements[k].bin_content_id = i}

(* A record whose whole remaining stock is reserved, after an issue from   *)
(* it: the bound is met with equality.                                     *)
C1_Witness ==
  \E i \in Ids(contents) :
     /\ contents[i].reserved_quantity > 0
     /\ contents[i].reserved_quantity = contents[i].quantity
     /\ \E k \in MovementsOf(i) : movements[k].movement_type = "issue"

(***************************************************************************)
(* C2.  The quantity of a Batch Stock Record is never negative, whatever   *)
(* sequence of operations is applied, a Fulfill of a reservation whose     *)
(* backing record was changed after the reservation was made included.     *)
(***************************************************************************)
C2_QuantityNonNegative ==
  \A i \in Ids(contents) : contents[i].quantity >= 0

(* A record drawn on both by a direct issue and by the fulfilment of a     *)
(* reservation, and now empty.                                             *)
C2_Witness ==
  \E i \in Ids(contents), k1, k2 \in Ids(movements) :
     /\ contents[i].quantity = 0
     /\ k1 < k2
     /\ movements[k1].bin_content_id = i
     /\ movements[k1].reason = "customer_order"
     /\ movements[k2].bin_content_id = i
     /\ movements[k2].reason = "reservation_fulfillment"
     /\ reservations[movements[k2].reference_number].status = "fulfilled"

(***************************************************************************)
(* C3.  For every Batch Stock Record, the signed quantities of all its     *)
(* Movement Entries, summed in creation order, equal the record's current  *)
(* quantity, and the quantity_after of its latest Movement Entry equals    *)
(* the current quantity.                                                   *)
(***************************************************************************)
SignedQuantities(i) ==
  [k \in 1..Len(SelectSeq(movements, LAMBDA m : m.bin_content_id = i)) |->
      SelectSeq(movements, LAMBDA m : m.bin_content_id = i)[k].quantity]

LatestMovement(i) ==
  LET own == SelectSeq(movements, LAMBDA m : m.bin_content_id = i)
  IN  own[Len(own)]

C3_ReplayReproducesQuantity ==
  \A i \in Ids(contents) :
     /\ SumSeq(SignedQuantities(i)) = contents[i].quantity
     /\ MovementsOf(i) # {} => LatestMovement(i).quantity_after = contents[i].quantity

(***************************************************************************)
(* C4.  Two Issue requests that run concurrently against the same record   *)
(* and together ask for more than it holds (80 and 80 against 100, here    *)
(* MaxQty and MaxQty against MaxQty) are never both committed: the log of  *)
(* a record never shows two successive issue movements that started from   *)
(* the same quantity_before and together took more than that quantity.     *)
(***************************************************************************)
OwnMovements(i) == SelectSeq(movements, LAMBDA m : m.bin_content_id = i)

C4_ConcurrentIssuesOneSucceeds ==
  \A i \in Ids(contents) :
     \A k \in 1..(Len(OwnMovements(i)) - 1) :
        ~ /\ OwnMovements(i)[k].movement_type = "issue"
          /\ OwnMovements(i)[k + 1].movement_type = "issue"
          /\ OwnMovements(i)[k].quantity_before = OwnMovements(i)[k + 1].quantity_before
          /\ (0 - OwnMovements(i)[k].quantity) + (0 - OwnMovements(i)[k + 1].quantity)
                > OwnMovements(i)[k].quantity_before

(***************************************************************************)
(* C5.  Ledger and log change together: in every committed step, a record  *)
(* whose quantity changed (or that was created) gets a new Movement Entry  *)
(* whose quantity_before and quantity_after are the old and the new        *)
(* committed quantity, and every new Movement Entry belongs to a record    *)
(* whose committed quantity went from its quantity_before to its           *)
(* quantity_after in that step.  A rejected or failed operation is a step  *)
(* that changes neither ledger nor log.                                    *)
(***************************************************************************)
OldQuantity(i) == IF i \in Ids(contents) THEN contents[i].quantity ELSE 0

C5_LedgerAndLogAtomic ==
  [][ /\ \A i \in Ids(contents') :
            contents'[i].quantity # OldQuantity(i) =>
               \E k \in (Len(movements) + 1)..Len(movements') :
                  /\ movements'[k].bin_content_id = i
                  /\ movements'[k].quantity_before = OldQuantity(i)
                  /\ movements'[k].quantity_after = contents'[i].quantity
      /\ \A k \in (Len(movements) + 1)..Len(movements') :
            /\ movements'[k].quantity_before = OldQuantity(movements'[k].bin_content_id)
            /\ movements'[k].quantity_after = contents'[movements'[k].bin_content_id].quantity
      /\ \A k \in Ids(movements) : movements'[k] = movements[k]
    ]_vars

(***************************************************************************)
(* C6.  When the sweep of expired reservations and a Fulfill run           *)
(* concurrently on the same active, overdue reservation, exactly one of    *)
(* them takes effect: a reservation whose lines were issued by Fulfill is  *)
(* fulfilled and stays so, and a reservation released by the sweep         *)
(* (expired) has no line issued by Fulfill.                                *)
(***************************************************************************)
IssuedFor(r) ==
  {k \in Ids(movements) : /\ movements[k].reason = "reservation_fulfillment"
                          /\ movements[k].reference_number = r}

IssueOutcomes(i) ==
  {issue_goods(DB, today, i, quantity, o.force_non_fefo, o.override_reason, o.user_role) :
      quantity \in Quantities, o \in Overrides}

C7_ReservedNeverConsumed ==
  \A i \in Ids(contents) :
     /\ \A quantity \in Quantities, o \in Overrides :
           LET r == issue_goods(DB, today, i, quantity, o.force_non_fefo,
                                o.override_reason, o.user_role)
           IN  /\ quantity > contents[i].quantity - contents[i].reserved_quantity
                    => r.err # "none" /\ r.db = DB
               /\ r.err = "none"
                    => r.db.contents[i].quantity >= r.db.contents[i].reserved_quantity
     /\ \A new_quantity \in 0..MaxQty :
           LET r == adjust_stock(DB, i, new_quantity)
           IN  /\ new_quantity < contents[i].reserved_quantity
                    => r.err # "none" /\ r.db = DB
               /\ r.err = "none"
                    => r.db.contents[i].quantity >= r.db.contents[i].reserved_quantity

(* A record with a reservation standing whose free stock has been issued: *)
(* a further issue is refused for the reservation alone, and so is an      *)
(* adjustment below the reserved quantity, while the adjustment to exactly *)
(* the reserved quantity is accepted.                                      *)
C7_Witness ==
  \E i \in Ids(contents) :
     /\ contents[i].reserved_quantity > 0
     /\ \E k \in MovementsOf(i) :
           /\ movements[k].reason = "customer_order"
           /\ movements[k].quantity_after = contents[i].quantity
           /\ movements[k].quantity_after >= contents[i].reserved_quantity
     /\ \E r \in IssueOutcomes(i) : r.err = "insufficient_available"
     /\ adjust_stock(DB, i, contents[i].reserved_quantity - 1).err
           = "reserved_quantity_violation"
     /\ adjust_stock(DB, i, contents[i].reserved_quantity).err = "none"

(***************************************************************************)
(* C8.  An Issue from a record that is not the earliest eligible record of *)
(* its product, for a quantity the record has free and a batch that is not *)
(* expired.                                                                *)
(*                                                                         *)
(* As claimed: it succeeds only if the override is asked for with a reason *)
(* (and is then recorded with fefo_compliant = false); otherwise it is     *)
(* rejected with fefo_violation and nothing changes.                       *)
(*                                                                         *)
(* As the code has it: it succeeds exactly if the override is asked for    *)
(* with a reason by a manager or administrator, and is then recorded with  *)
(* fefo_compliant = false; without the override it is rejected with        *)
(* fefo_violation; with the override but without the reason or the role    *)
(* it is rejected with fefo_override_required; a rejection changes         *)
(* nothing.                                                                *)
(***************************************************************************)
NonFefoIssues ==
  {x \in [bin_content_id : Ids(contents), quantity : Quantities, o : Overrides] :
     /\ ~is_fefo_compliant(DB, today, x.bin_content_id,
                           contents[x.bin_content_id].product_id)
     /\ x.quantity <= available_to_issue(contents[x.bin_content_id])
     /\ contents[x.bin_content_id].use_by_date >= today}

IssueOf(x) ==
  issue_goods(DB, today, x.bin_content_id, x.quantity, x.o.force_non_fefo,
              x.o.override_reason, x.o.user_role)

RecordedNonFefo(x, d) ==
  /\ Len(d.movements) = Len(movements) + 1
  /\ d.movements[Len(d.movements)].bin_content_id = x.bin_content_id
  /\ d.movements[Len(d.movements)].movement_type = "issue"
  /\ d.movements[Len(d.movements)].fefo_compliant = "false"

C8_AsClaimed ==
  \A x \in NonFefoIssues :
     IF IssueOf(x).err = "none"
       THEN /\ x.o.force_non_fefo /\ x.o.override_reason
            /\ RecordedNonFefo(x, IssueOf(x).db)
       ELSE /\ IssueOf(x).err = "fefo_violation"
            /\ IssueOf(x).db = DB

C8_OverrideNeedsReasonAndRole ==
  \A x \in NonFefoIssues :
     /\ IssueOf(x).err = "none"
          <=> /\ x.o.force_non_fefo /\ x.o.override_reason
              /\ x.o.user_role \in {"admin", "manager"}
     /\ IssueOf(x).err = "none" => RecordedNonFefo(x, IssueOf(x).db)
     /\ ~x.o.force_non_fefo => IssueOf(x).err = "fefo_violation"
     /\ x.o.force_non_fefo /\ IssueOf(x).err # "none"
          => IssueOf(x).err = "fefo_override_required"
     /\ IssueOf(x).err # "none" => IssueOf(x).db = DB

(* An overridden issue has been committed from a record that still is not  *)
(* the earliest eligible one, and each kind of request can be made of it.  *)
C8_Witness ==
  \E k \in Ids(movements) :
     /\ movements[k].movement_type = "issue"
     /\ movements[k].fefo_compliant = "false"
     /\ \E x, y, z \in NonFefoIssues :
           /\ x.bin_content_id = movements[k].bin_content_id
           /\ y.bin_content_id = x.bin_content_id
           /\ z.bin_content_id = x.bin_content_id
           /\ IssueOf(x).err = "none"
           /\ IssueOf(y).err = "fefo_violation"
           /\ IssueOf(z).err = "fefo_override_required"

(***************************************************************************)
(* C9.  No issue movement is ever written against a batch whose use-by     *)
(* date is before today, neither by a direct Issue nor by the Fulfill of a *)
(* reservation made before the batch expired: every step that appends an   *)
(* issue movement appends it for a record whose use_by_date is today or    *)
(* later.                                                                  *)
(***************************************************************************)
C9_NoIssueOfExpiredBatch ==
  [][ \A k \in (Len(movements) + 1)..Len(movements') :
         movements'[k].movement_type = "issue"
            => contents'[movements'[k].bin_content_id].use_by_date >= today
    ]_vars

(***************************************************************************)
(* C10.  Scrap on any existing Batch Stock Record succeeds whatever is     *)
(* reserved on it: the request is accepted and committed, the record then  *)
(* has quantity 0 and status scrapped, and the log has grown by exactly    *)
(* one scrap movement whose quantity is the negated quantity the record    *)
(* had.                                                                    *)
(***************************************************************************)
Scrapped(i) == Apply(DB, DB, scrap_stock(DB, i).db)

C10_ScrapOverridesReservations ==
  \A i \in Ids(contents) :
     /\ scrap_stock(DB, i).err = "none"
     /\ ~IntegrityError(DB, DB, scrap_stock(DB, i).db)
     /\ Scrapped(i).contents[i].quantity = 0
     /\ Scrapped(i).contents[i].status = "scrapped"
     /\ Len(Scrapped(i).movements) = Len(movements) + 1
     /\ Scrapped(i).movements[Len(movements) + 1].bin_content_id = i
     /\ Scrapped(i).movements[Len(movements) + 1].movement_type = "scrap"
     /\ Scrapped(i).movements[Len(movements) + 1].quantity = 0 - contents[i].quantity

(***************************************************************************)
(* C11.  Once a record has been scrapped, no later Issue against it ever   *)
(* succeeds: every Issue request against a record whose status is scrapped *)
(* is rejected as not found or as insufficient.                            *)
(***************************************************************************)
Depleted == {"bin_content_not_found", "insufficient_quantity", "insufficient_available"}

C11_ScrappedNeverIssued ==
  \A i \in Ids(contents) :
     contents[i].status = "scrapped"
        => \A r \in IssueOutcomes(i) : r.err \in Depleted

(***************************************************************************)
(* C12.  All Batch Stock Records with quantity > 0 that are located in the *)
(* same bin belong to the same product: in every committed state, and in   *)
(* the state every accepted Adjust would commit.                           *)
(***************************************************************************)
OneProductPerBin(d) ==
  \A i, j \in Ids(d.contents) :
     /\ d.contents[i].bin_id = d.contents[j].bin_id
     /\ d.contents[i].quantity > 0
     /\ d.contents[j].quantity > 0
     => d.contents[i].product_id = d.contents[j].product_id

C12_OneProductPerBin ==
  /\ OneProductPerBin(DB)
  /\ \A i \in Ids(contents), new_quantity \in 0..MaxQty :
        adjust_stock(DB, i, new_quantity).err = "none"
           => OneProductPerBin(Apply(DB, DB, adjust_stock(DB, i, new_quantity).db))

(***************************************************************************)
(* C13.  For any product and requested quantity, the allocation takes from *)
(* the eligible records of the product (status available, quantity -       *)
(* reserved > 0, use-by date >= today) in ascending order of (use-by date, *)
(* batch number, received time), min(available, remaining) from each:      *)
(* every line is on an eligible record, the lines are in that order, every *)
(* eligible record that comes before the last allocated one is allocated   *)
(* all it has available, and the last one gets what is still needed or all *)
(* it has.                                                                 *)
(***************************************************************************)
AllocationPlans(product_id, quantity) ==
  {Allocate(DB, available_bins, quantity) :
      available_bins \in FefoOrderings(DB, today, product_id)}

Allocatable(product_id) ==
  {j \in Ids(contents) : /\ contents[j].product_id = product_id
                         /\ contents[j].status = "available"
                         /\ contents[j].quantity - contents[j].reserved_quantity > 0
                         /\ contents[j].use_by_date >= today}

SortKey(j) ==
  <<contents[j].use_by_date, contents[j].batch_number, contents[j].received_date>>

KeyBefore(x, y) ==
  \/ x[1] < y[1]
  \/ x[1] = y[1] /\ x[2] < y[2]
  \/ x[1] = y[1] /\ x[2] = y[2] /\ x[3] < y[3]

Free(j) == contents[j].quantity - contents[j].reserved_quantity

C13_AllocationFollowsFefo ==
  \A product_id \in Products, quantity \in Quantities :
     \A plan \in AllocationPlans(product_id, quantity) :
        /\ \A k \in DOMAIN plan :
              /\ plan[k].bin_content_id \in Allocatable(product_id)
              /\ plan[k].quantity_reserved =
                   Min(Free(plan[k].bin_content_id),
                       quantity - TotalReserved(SubSeq(plan, 1, k - 1)))
              /\ plan[k].quantity_reserved > 0
        /\ \A k, l \in DOMAIN plan :
              k < l => /\ plan[k].bin_content_id # plan[l].bin_content_id
                       /\ ~KeyBefore(SortKey(plan[l].bin_content_id),
                                     SortKey(plan[k].bin_content_id))
        /\ \A j \in Allocatable(product_id) :
              /\ plan # <<>>
              /\ KeyBefore(SortKey(j), SortKey(plan[Len(plan)].bin_content_id))
              => \E k \in DOMAIN plan : /\ plan[k].bin_content_id = j
                                        /\ plan[k].quantity_reserved = Free(j)

(* A reservation has been made over two records with the same use-by date: *)
(* its first line is on the batch with the lower number although that      *)
(* batch arrived later, and takes all of it.                               *)
C13_Witness ==
  \E r \in Ids(reservations) :
     /\ Len(reservations[r].items) = 2
     /\ LET first == reservations[r].items[1]
            second == reservations[r].items[2]
        IN /\ contents[first.bin_content_id].use_by_date
                = contents[second.bin_content_id].use_by_date
           /\ contents[first.bin_content_id].batch_number
                < contents[second.bin_content_id].batch_number
           /\ contents[first.bin_content_id].received_date
                > contents[second.bin_content_id].received_date
           /\ first.quantity_reserved = contents[first.bin_content_id].quantity

(***************************************************************************)
(* C14.  CreateReservation for quantity Q of a product whose eligible      *)
(* records have A units free in total: with A = 0 it is rejected for lack  *)
(* of stock and changes nothing; with A > 0 it raises no error and creates *)
(* an active reservation whose total and whose lines both sum to the       *)
(* smaller of Q and A (so to exactly A when A < Q); the partial flag is    *)
(* set exactly when that total is less than Q.                             *)
(***************************************************************************)
RequestedQuantities == 1..(MaxQty * MaxContents + 1)

TotalFree(product_id) ==
  SumSeq([k \in 1..Len(contents) |->
            IF k \in Allocatable(product_id) THEN Free(k) ELSE 0])

Granted(product_id, quantity) ==
  IF TotalFree(product_id) < quantity THEN TotalFree(product_id) ELSE quantity

C14_PartialAllocation ==
  \A product_id \in Products, quantity \in RequestedQuantities :
     \A available_bins \in FefoOrderings(DB, today, product_id) :
        LET r == create_reservation(DB, product_id, quantity, today, available_bins)
            new == r.db.reservations[Len(reservations) + 1]
        IN IF TotalFree(product_id) = 0
             THEN r.err = "reservation_no_stock" /\ r.db = DB
             ELSE /\ r.err = "none"
                  /\ Len(r.db.reservations) = Len(reservations) + 1
                  /\ new.status = "active"
                  /\ new.total_quantity = Granted(product_id, quantity)
                  /\ TotalReserved(new.items) = Granted(product_id, quantity)
                  /\ is_partial(DB, quantity, available_bins)
                       <=> Granted(product_id, quantity) < quantity

(* A reservation has been committed that took every free unit of its       *)
(* product: nothing of the product is left to allocate, so the next        *)
(* request for it is rejected, and a request for one unit more than this   *)
(* reservation holds would have been partial.                              *)
C14_Witness ==
  \E r \in Ids(reservations) :
     /\ reservations[r].status = "active"
     /\ reservations[r].total_quantity = TotalReserved(reservations[r].items)
     /\ reservations[r].total_quantity > 0
     /\ TotalFree(reservations[r].product_id) = 0
     /\ \A k \in DOMAIN reservations[r].items :
           contents[reservations[r].items[k].bin_content_id].reserved_quantity
              = contents[reservations[r].items[k].bin_content_id].quantity
     /\ \E j \in Ids(contents) :
           /\ contents[j].product_id = reservations[r].product_id
           /\ contents[j].status = "scrapped" \/ contents[j].use_by_date < today

(***************************************************************************)
(* C15.  For every Batch Stock Record, the line quantities of all active   *)
(* reservations bound to the record sum to the record's reserved           *)
(* quantity.                                                               *)
(***************************************************************************)
LinesOn(i, items) ==
  SumSeq([k \in DOMAIN items |->
            IF items[k].bin_content_id = i THEN items[k].quantity_reserved ELSE 0])

ActiveLinesOn(i) ==
  SumSeq([r \in 1..Len(reservations) |->
            IF reservations[r].status = "active"
            THEN LinesOn(i, reservations[r].items) ELSE 0])

C15_ReservedIsSumOfActiveLines ==
  \A i \in Ids(contents) : ActiveLinesOn(i) = contents[i].reserved_quantity

(***************************************************************************)
(* C16.  Creating a reservation and then cancelling it returns the         *)
(* reserved quantity of every backing record to its value before the       *)
(* reservation, leaves every record's quantity unchanged and appends no    *)
(* movement: from every reachable database, for every request that         *)
(* create_reservation accepts, the lines raise the backing records'        *)
(* reserved quantity by what they hold, and cancel_reservation of the new  *)
(* reservation is accepted and gives back the contents and the movement    *)
(* log of before.                                                          *)
(***************************************************************************)
C16_ReserveCancelRoundTrip ==
  \A product_id \in Products, quantity \in RequestedQuantities :
     \A available_bins \in FefoOrderings(DB, today, product_id) :
        LET r == create_reservation(DB, product_id, quantity, today, available_bins)
            reservation_id == Len(reservations) + 1
            c == cancel_reservation(r.db, reservation_id)
        IN r.err = "none" =>
             /\ \A i \in Ids(contents) :
                   /\ r.db.contents[i].quantity = contents[i].quantity
                   /\ r.db.contents[i].reserved_quantity
                        = contents[i].reserved_quantity
                          + LinesOn(i, r.db.reservations[reservation_id].items)
             /\ r.db.movements = movements
             /\ c.err = "none"
             /\ c.db.contents = contents
             /\ c.db.movements = movements
             /\ c.db.bins = bins
             /\ c.db.reservations[reservation_id].status = "cancelled"

(* A reservation was created and then cancelled: its lines still name      *)
(* records that hold the stock, nothing is reserved on them any more, and  *)
(* no movement refers to the reservation.                                  *)
C16_Witness ==
  \E r \in Ids(reservations) :
     /\ reservations[r].status = "cancelled"
     /\ reservations[r].items # <<>>
     /\ \A k \in DOMAIN reservations[r].items :
           LET i == reservations[r].items[k].bin_content_id
           IN /\ contents[i].reserved_quantity = 0
              /\ contents[i].quantity >= reservations[r].items[k].quantity_reserved
     /\ \A m \in Ids(movements) : movements[m].reason # "reservation_fulfillment"

(***************************************************************************)
(* C17.  The reservation statuses fulfilled, cancelled and expired are     *)
(* absorbing: a Fulfill or Cancel of a reservation in one of them is       *)
(* rejected without effect, so no step changes the status of such a        *)
(* reservation or adds a fulfilment movement for it.                       *)
(***************************************************************************)
TerminalStatuses == {"fulfilled", "cancelled", "expired"}

FulfilmentsOf(log, r) ==
  {m \in Ids(log) : /\ log[m].reason = "reservation_fulfillment"
                    /\ log[m].reference_number = r}

RejectedOnTerminal ==
  \A r \in Ids(reservations) :
     reservations[r].status \in TerminalStatuses =>
        /\ fulfill_reservation(DB, r).err # "none"
        /\ fulfill_reservation(DB, r).db = DB
        /\ cancel_reservation(DB, r).err # "none"
        /\ cancel_reservation(DB, r).db = DB

C17_TerminalStatusesAbsorbing ==
  [][/\ RejectedOnTerminal
     /\ \A r \in Ids(reservations) :
          reservations[r].status \in TerminalStatuses =>
             /\ reservations'[r].status = reservations[r].status
             /\ FulfilmentsOf(movements', r) = FulfilmentsOf(movements, r)]_vars

(***************************************************************************)
(* C18.  A cross-warehouse transfer changes status only from pending to    *)
(* in_transit, from pending or in_transit to received and from pending or  *)
(* in_transit to cancelled; received and cancelled are absorbing: every    *)
(* Dispatch, Confirm or Cancel of such a transfer is rejected without      *)
(* effect, so no step changes its status or adds a receipt or reversal     *)
(* movement; and Dispatch changes no quantity and writes no movement.      *)
(***************************************************************************)
StatusChanges ==
  {<<"pending", "in_transit">>, <<"pending", "received">>,
   <<"in_transit", "received">>, <<"pending", "cancelled">>,
   <<"in_transit", "cancelled">>}

FinalStatuses == {"received", "cancelled"}

TransferEffects(log) ==
  {m \in Ids(log) : log[m].reason \in {"cross_warehouse_in", "transfer_cancelled"}}

RejectedOnFinal ==
  \A t \in Ids(transfers) :
     transfers[t].status \in FinalStatuses =>
        /\ dispatch_transfer(DB, t).err # "none"
        /\ dispatch_transfer(DB, t).db = DB
        /\ cancel_transfer(DB, t).err # "none"
        /\ cancel_transfer(DB, t).db = DB
        /\ \A target_bin_id \in Bins, received_quantity \in Quantities :
              LET r == confirm_transfer_receipt(DB, t, target_bin_id, received_quantity)
              IN r.err # "none" /\ r.db = DB

DispatchMovesNoStock ==
  \A t \in Ids(transfers) :
     LET r == dispatch_transfer(DB, t)
     IN /\ r.db.contents = contents
        /\ r.db.movements = movements
        /\ r.db.bins = bins
        /\ transfers[t].status = "pending" <=> r.err = "none"
        /\ r.err = "none" => r.db.transfers[t].status = "in_transit"

C18_TransferStatusMachine ==
  [][/\ RejectedOnFinal
     /\ DispatchMovesNoStock
     /\ \A t \in Ids(transfers) :
          /\ transfers'[t].status # transfers[t].status =>
                <<transfers[t].status, transfers'[t].status>> \in StatusChanges
          /\ transfers[t].status \in FinalStatuses =>
                /\ transfers'[t] = transfers[t]
                /\ TransferEffects(movements') = TransferEffects(movements)]_vars

(***************************************************************************)
(* C19.  Creating a cross-warehouse transfer of q units from a record and  *)
(* then cancelling it returns the record's quantity to its value before    *)
(* the transfer and leaves exactly two transfer movements on the record,   *)
(* -q out and +q back: from every reachable database, for every request    *)
(* create_cross_warehouse_transfer accepts, cancel_transfer of the new     *)
(* transfer (pending, or in_transit after dispatch_transfer) is accepted,  *)
(* the contents are those of before and the log is longer by those two     *)
(* entries.                                                                *)
(***************************************************************************)
Cancelled(d, transfer_id, dispatched) ==
  cancel_transfer(IF dispatched THEN dispatch_transfer(d, transfer_id).db ELSE d,
                  transfer_id)

C19_TransferCancelRoundTrip ==
  \A source_bin_content_id \in Ids(contents), target_warehouse_id \in Warehouses,
     target_bin_id \in Bins \cup {"none"}, quantity \in Quantities,
     dispatched \in BOOLEAN :
       LET r == create_cross_warehouse_transfer(DB, source_bin_content_id,
                  target_warehouse_id, target_bin_id, quantity)
           transfer_id == Len(transfers) + 1
           c == Cancelled(r.db, transfer_id, dispatched)
           n == Len(movements)
       IN r.err = "none" =>
            /\ r.db.contents[source_bin_content_id].quantity
                 = contents[source_bin_content_id].quantity - quantity
            /\ c.err = "none"
            /\ c.db.contents = contents
            /\ c.db.transfers[transfer_id].status = "cancelled"
            /\ Len(c.db.movements) = n + 2
            /\ SubSeq(c.db.movements, 1, n) = movements
            /\ \A k \in {n + 1, n + 2} :
                  /\ c.db.movements[k].bin_content_id = source_bin_content_id
                  /\ c.db.movements[k].movement_type = "transfer"
            /\ c.db.movements[n + 1].quantity = -quantity
            /\ c.db.movements[n + 2].quantity = quantity

(***************************************************************************)
(* C20.  Of concurrent Confirm and Cancel requests for one transfer at     *)
(* most one takes effect: the quantity of a transfer is never both         *)
(* credited to a destination record and returned to the source record; a   *)
(* received transfer has its credit, and a return goes with status         *)
(* cancelled.                                                              *)
(***************************************************************************)
Credits(t) ==
  {m \in Ids(movements) :
     /\ movements[m].reason = "cross_warehouse_in"
     /\ contents[movements[m].bin_content_id].bin_id = transfers[t].target_bin_id
     /\ contents[movements[m].bin_content_id].product_id
          = contents[transfers[t].source_bin_content_id].product_id
     /\ contents[movements[m].bin_content_id].batch_number
          = contents[transfers[t].source_bin_content_id].batch_number}

Returns(t) ==
  {m \in Ids(movements) : /\ movements[m].reason = "transfer_cancelled"
                          /\ movements[m].bin_content_id
                               = transfers[t].source_bin_content_id}

C21_NoDoubleBooking ==
  \A i \in Ids(contents) : ActiveLinesOn(i) <= contents[i].quantity

(***************************************************************************)
(* C22.  The sweep at time now sets to expired exactly the active          *)
(* reservations with reserved_until < now, subtracts each of their lines   *)
(* from the backing record's reserved quantity once, leaves every other    *)
(* reservation, every quantity and the log untouched and returns the       *)
(* number of reservations it expired; run again at the same now it changes *)
(* nothing and returns 0.                                                  *)
(***************************************************************************)
SweepTimes == 0..(MaxDay + 1)

Overdue(now) ==
  {k \in Ids(reservations) : /\ reservations[k].status = "active"
                             /\ reservations[k].reserved_until < now}

OverdueLinesOn(i, now) ==
  SumSeq([k \in 1..Len(reservations) |->
            IF k \in Overdue(now) THEN LinesOn(i, reservations[k].items) ELSE 0])

TransferRejectedWhenShort ==
  \A source_bin_content_id \in Ids(contents), target_bin_id \in Bins,
     quantity \in 1..(MaxQty + 1) :
       LET r == transfer_within_warehouse(DB, source_bin_content_id, target_bin_id,
                                          quantity)
       IN quantity > contents[source_bin_content_id].quantity
                       - contents[source_bin_content_id].reserved_quantity
            => r.err = "transfer_insufficient_quantity" /\ r.db = DB

QuantityOf(cs, i) == IF i \in Ids(cs) THEN cs[i].quantity ELSE 0

TransferCommitted ==
  /\ Len(movements') = Len(movements) + 2
  /\ movements'[Len(movements) + 1].reason = "transfer_out"
  /\ movements'[Len(movements) + 2].reason = "transfer_in"

C24_TransferWithinConserves ==
  [][/\ TransferRejectedWhenShort
     /\ TransferCommitted =>
          LET out == movements'[Len(movements) + 1]
              in == movements'[Len(movements) + 2]
              q == in.quantity
          IN /\ out.quantity = -q
             /\ out.movement_type = "transfer" /\ in.movement_type = "transfer"
             /\ out.bin_content_id # in.bin_content_id
             /\ QuantityOf(contents', out.bin_content_id)
                  = QuantityOf(contents, out.bin_content_id) - q
             /\ QuantityOf(contents', in.bin_content_id)
                  = QuantityOf(contents, in.bin_content_id) + q
             /\ QuantityOf(contents', out.bin_content_id)
                  + QuantityOf(contents', in.bin_content_id)
                  = QuantityOf(contents, out.bin_content_id)
                    + QuantityOf(contents, in.bin_content_id)]_vars

(***************************************************************************)
(* C25.  The movement log is append-only: no step changes or removes an    *)
(* entry that has been written, so the log after a step is an extension    *)
(* of the log before it; deleting a bin leaves the records and the log as  *)
(* they are.                                                               *)
(***************************************************************************)
BinDeletionKeepsLog ==
  \A bin_id \in Bins :
     LET r == delete_bin(DB, bin_id)
     IN /\ r.db = DB
        /\ r.err \in {"none", "bin_not_empty", "IntegrityError"}
        /\ r.err = "none" => \A i \in Ids(contents) : contents[i].bin_id # bin_id

C26_OneUrgencyScale ==
  LET days == warning.days_until_expiry
  IN warning.display # "none" =>
       warning.urgency = IF days < 0 THEN "expired"
                         ELSE IF days < 3 THEN "critical"
                         ELSE IF days <= 7 THEN "high"
                         ELSE IF days <= 14 THEN "medium"
                         ELSE "low"

(***************************************************************************)
(* C27.  Every active reservation whose reserved_until has passed is       *)
(* eventually expired by the scheduled cleanup task: while the task keeps  *)
(* being run and no Fulfill or Cancel takes place, the reservation's       *)
(* status expired and the release of its lines are eventually committed.   *)
(***************************************************************************)
C27_OverdueEventuallyExpired ==
  \A r \in 1..MaxBookings :
     (/\ r \in Ids(reservations)
      /\ reservations[r].status = "active"
      /\ reservations[r].reserved_until < today)
       ~> (/\ r \in Ids(reservations)
           /\ reservations[r].status = "expired")

(***************************************************************************)
(* C28.  In every reachable state a Batch Stock Record whose status is     *)
(* scrapped has quantity 0: no later Receive of the same batch into the    *)
(* same bin, Adjust, transfer-in or transfer Cancel gives a scrapped       *)
(* record a positive quantity.                                             *)
(***************************************************************************)
C28_ScrappedStaysZero ==
  \A i \in Ids(contents) :
     contents[i].status = "scrapped" => contents[i].quantity = 0

(***************************************************************************)
(* C29.  In every reachable state a bin whose status is empty contains no  *)
(* Batch Stock Record with quantity > 0, so a bin that still holds stock   *)
(* of some batch never passes the bin-deletion check; this also after an   *)
(* Issue, Fulfill, Adjust, Scrap or transfer-out that brings only one of   *)
(* several batches in the bin to zero.                                     *)
(***************************************************************************)
StockIn(bin_id) ==
  {i \in Ids(contents) : contents[i].bin_id = bin_id /\ contents[i].quantity > 0}

C29_EmptyBinHoldsNoStock ==
  \A bin_id \in Bins :
     StockIn(bin_id) # {}
        => /\ bins[bin_id] # "empty"
           /\ delete_bin(DB, bin_id).err = "bin_not_empty"

(***************************************************************************)
(* C30.  No transfer operation creates stock: the quantity Confirm credits *)
(* to the destination record never exceeds the transfer's quantity_sent,   *)
(* so the sum of all record quantities plus the quantity_sent of all       *)
(* pending and in_transit transfers is never increased by Create,          *)
(* Dispatch, Confirm or Cancel.                                            *)
(***************************************************************************)
Underway == {"pending", "in_transit"}

StockOnHand(cs) == SumSeq([i \in Ids(cs) |-> cs[i].quantity])

StockInFlight(ts) ==
  SumSeq([t \in Ids(ts) |-> IF ts[t].status \in Underway
                              THEN ts[t].quantity_sent ELSE 0])

ConfirmCreditsAtMostSent ==
  \A t \in Ids(transfers), target_bin_id \in Bins, received_quantity \in Quantities :
     confirm_transfer_receipt(DB, t, target_bin_id, received_quantity).err = "none"
        => received_quantity <= transfers[t].quantity_sent

C30_TransfersCreateNoStock ==
  [][/\ ConfirmCreditsAtMostSent
     /\ StockOnHand(contents') + StockInFlight(transfers')
          <= StockOnHand(contents) + StockInFlight(transfers)]_vars

====
